---- MODULE Spec2Model ----
(***************************************************************************)
(* git-convert-index.py: conversion of a v2/v3 index file (.git/index)     *)
(* into the v5 layout (.git/index-v5).                                     *)
(*                                                                         *)
(* Files are sequences of bytes (0..255); Python byte strings are          *)
(* sequences of bytes as well.  One action per step of main/read_index/    *)
(* write_index_v5; a function that is called once is one action.           *)
(***************************************************************************)
EXTENDS Integers, Sequences, FiniteSets, TLC

VARIABLES
    input,              \* the description the input file was built from
    file,               \* the bytes of .git/index
    args,               \* sys.argv[1:]
    pc,                 \* position in main
    err,                \* the exception that ended the run, or "none"
    pos,                \* Reader._f position (bytes delivered so far)
    sha,                \* Reader._sha1: the bytes absorbed so far, in order
    header,             \* Header
    indexentries,       \* list of IndexEntry (active)
    conflictedentries,  \* defaultdict(list): pathname -> list of IndexEntry
    paths,              \* set of pathnames
    files,              \* list of filenames
    consumed,           \* bytes consumed by each read_entry call, in order
    treeextensiondata,  \* dict: fpath -> TreeExtensionData
    reucextensiondata,  \* defaultdict(list): key -> list of ReucExtensionData
    ext,                \* the last 4 bytes peeked for an extension tag
    sha1read,           \* the expected digest read from the file
    argi,               \* index of the next argument main looks at
    printed,            \* the dumps printed so far, in order
    opened,             \* whether .git/index-v5 has been opened for writing
    out,                \* the bytes of .git/index-v5
    fwpos,              \* position of the output file object
    diroffsets,         \* list of directory record offsets
    dirwritedataoffsets,\* dict: pathname -> offset of its DirEntry block
    fileoffsetbeginning,\* offset of the file offset table
    fileoffsets,        \* list of file record offsets
    dirdata,            \* dict: pathname -> DirEntry
    locals              \* the locals of the extension reader that ran last

vars == <<input, file, args, pc, err, pos, sha, header, indexentries,
          conflictedentries, paths, files, consumed, treeextensiondata,
          reucextensiondata, ext, sha1read, argi, printed, opened, out,
          fwpos, diroffsets, dirwritedataoffsets, fileoffsetbeginning,
          fileoffsets, dirdata, locals>>

readerVars == <<pos, sha>>
parseVars  == <<header, indexentries, conflictedentries, paths, files,
                consumed, treeextensiondata, reucextensiondata, ext,
                sha1read>>
writeVars  == <<opened, out, fwpos, diroffsets, dirwritedataoffsets,
                fileoffsetbeginning, fileoffsets, dirdata>>

(***************************************************************************)
(* Bounds of the model                                                     *)
(***************************************************************************)
MaxEntries == 2

(***************************************************************************)
(* Bytes, strings and struct packing                                       *)
(***************************************************************************)
NUL   == 0
SP    == 32
LF    == 10
SLASH == 47
MINUS == 45
DIGIT0 == 48

Min(a, b) == IF a <= b THEN a ELSE b

\* the element of a one-element set: {e(x) : x \in {v}} computes v once
Only(S) == CHOOSE x \in S : TRUE

Zeros(n) == [i \in 1..n |-> 0]

EmptyDict == [k \in {} |-> 0]

DictSet(d, k, v) == [x \in DOMAIN d \cup {k} |-> IF x = k THEN v ELSE d[x]]

\* struct "!I"
Pack32(n) ==
    << (n \div 16777216) % 256, (n \div 65536) % 256, (n \div 256) % 256,
       n % 256 >>

Unpack32(b) == ((b[1] * 256 + b[2]) * 256 + b[3]) * 256 + b[4]

\* struct "!H"
Pack16(n) == << (n \div 256) % 256, n % 256 >>

Unpack16(b) == b[1] * 256 + b[2]

\* struct "!h": a signed 16-bit integer
UnpackS16(b) ==
    IF Unpack16(b) >= 32768 THEN Unpack16(b) - 65536 ELSE Unpack16(b)

\* struct "20s": a longer string is cut, a shorter one is padded with NULs
Pack20s(s) == [i \in 1..20 |-> IF i <= Len(s) THEN s[i] ELSE 0]

\* Python's & on an integer and a non-negative 16-bit mask (two's complement)
RECURSIVE BitAndN(_, _, _)
BitAndN(a, b, n) ==
    IF n = 0 THEN 0
    ELSE 2 * BitAndN(a \div 2, b \div 2, n - 1) + (a % 2) * (b % 2)

BitAnd16(a, mask) == BitAndN(a % 65536, mask, 16)

\* lexicographic order of byte strings (Python's str comparison)
RECURSIVE StrLess(_, _)
StrLess(a, b) ==
    IF b = <<>> THEN FALSE
    ELSE IF a = <<>> THEN TRUE
    ELSE IF a[1] # b[1] THEN a[1] < b[1]
    ELSE StrLess(Tail(a), Tail(b))

\* sorted(S) for a set of byte strings
RECURSIVE SortedStrs(_)
SortedStrs(S) ==
    IF S = {} THEN <<>>
    ELSE Only({Only({<<m>> \o SortedStrs(T) : T \in {S \ {m}}}) :
               m \in {CHOOSE x \in S : \A y \in S \ {x} : StrLess(x, y)}})

STR_DIRC == <<68, 73, 82, 67>>
STR_TREE == <<84, 82, 69, 69>>
STR_REUC == <<82, 69, 85, 67>>
STR_INVALID == <<105, 110, 118, 97, 108, 105, 100>>
STR_MINUS1 == <<45, 49>>

\* binascii.hexlify: two lower-case hex digits per byte
HexDigit(n) == IF n < 10 THEN 48 + n ELSE 87 + n

hexlify(s) ==
    [i \in 1..(2 * Len(s)) |->
        IF i % 2 = 1 THEN HexDigit(s[(i + 1) \div 2] \div 16)
        ELSE HexDigit(s[i \div 2] % 16)]

\* int(s): an optional sign and at least one decimal digit
IsDigits(s, base) ==
    /\ Len(s) > 0
    /\ \A i \in 1..Len(s) : s[i] >= DIGIT0 /\ s[i] < DIGIT0 + base

RECURSIVE DigitsValue(_, _)
DigitsValue(s, base) ==
    IF s = <<>> THEN 0
    ELSE DigitsValue(SubSeq(s, 1, Len(s) - 1), base) * base
             + (s[Len(s)] - DIGIT0)

IntOk(s, base) ==
    IF Len(s) > 0 /\ s[1] = MINUS THEN IsDigits(Tail(s), base)
    ELSE IsDigits(s, base)

IntValue(s, base) ==
    IF s[1] = MINUS THEN 0 - DigitsValue(Tail(s), base)
    ELSE DigitsValue(s, base)

(***************************************************************************)
(* hashlib.sha1 and binascii.crc32 are library functions; the model uses   *)
(* running checksums in their place.  A digest is 20 bytes whose first     *)
(* byte has its top bit set: in the model no digest begins with the bytes  *)
(* of an extension tag.                                                    *)
(***************************************************************************)
\* acc |-> (acc * 31 + byte + 1) % 65521 over data[lo..hi], left to right
RECURSIVE RunningSumRange(_, _, _, _)
RunningSumRange(data, lo, hi, acc) ==
    IF lo > hi THEN acc
    ELSE IF lo = hi THEN (acc * 31 + data[lo] + 1) % 65521
    ELSE Only({RunningSumRange(data, ((lo + hi) \div 2) + 1, hi, left) :
                  left \in {RunningSumRange(data, lo, (lo + hi) \div 2,
                                            acc)}})

RunningSum(data, acc) ==
    Only({RunningSumRange(d, 1, Len(d), a) : d \in {data}, a \in {acc}})

sha1_digest(data) ==
    Only({<<128 + (h % 128), (h \div 128) % 256, h % 256, Len(data) % 256>>
              \o [i \in 1..16 |-> (h + i) % 256] :
          h \in {RunningSum(data, 7)}})

\* binascii.crc32(data, partialcrc) & 0xffffffff
calculate_crc(data, partialcrc) == RunningSum(data, partialcrc)

HEADER_SIZE == 24
HEADER_STRUCT_size == 12
STAT_DATA_STRUCT_size == 62
XTFLAGS_STRUCT_size == 2
DIRECTORY_DATA_STRUCT_size == 46
FILE_DATA_STRUCT_size == 36

(***************************************************************************)
(* os.path.dirname / os.path.basename (posixpath)                          *)
(***************************************************************************)
LastSlash(name) ==
    LET S == {i \in 1..Len(name) : name[i] = SLASH}
    IN  IF S = {} THEN 0 ELSE CHOOSE i \in S : \A j \in S : j <= i

\* the length of s without its trailing slashes
RStripLen(s) ==
    LET S == {i \in 1..Len(s) : s[i] # SLASH}
    IN  IF S = {} THEN 0 ELSE CHOOSE i \in S : \A j \in S : j <= i

\* str.rstrip("/")
RStripSlash(s) == SubSeq(s, 1, RStripLen(s))

dirname(name) ==
    Only({IF \A i \in 1..Len(head) : head[i] = SLASH THEN head
          ELSE RStripSlash(head) :
          head \in {SubSeq(name, 1, LastSlash(name))}})

basename(name) == SubSeq(name, LastSlash(name) + 1, Len(name))

(***************************************************************************)
(* Reader: a reader is the record [pos, sha] over the bytes of file        *)
(***************************************************************************)
Reader(p, s) == [pos |-> p, sha |-> s]

\* Reader.read: what the file still holds, at most n bytes, absorbed
ReaderRead(r, n) ==
    Only({[data |-> data, r |-> Reader(r.pos + Len(data), r.sha \o data)] :
          data \in {SubSeq(file, r.pos + 1, Min(r.pos + n, Len(file)))}})

\* Reader.read_without_updating_sha1
ReaderReadWithoutUpdatingSha1(r, n) ==
    Only({[data |-> data, r |-> Reader(r.pos + Len(data), r.sha)] :
          data \in {SubSeq(file, r.pos + 1, Min(r.pos + n, Len(file)))}})

\* Reader.updateSha1
ReaderUpdateSha1(r, data) == Reader(r.pos, r.sha \o data)

\* read_name: bytes up to the delimiter, which is consumed and counted.
\* At the end of the file read(1) returns "" forever: the loop never ends.
read_name(r, delimiter) ==
    Only({IF S = {}
          THEN [hang |-> TRUE, string |-> <<>>, readbytes |-> 0,
                r |-> Reader(Len(file),
                             r.sha \o SubSeq(file, r.pos + 1, Len(file)))]
          ELSE Only({[hang |-> FALSE,
                      string |-> SubSeq(file, r.pos + 1, q - 1),
                      readbytes |-> q - r.pos,
                      r |-> Reader(q, r.sha \o SubSeq(file, r.pos + 1, q))] :
                     q \in {CHOOSE x \in S : \A y \in S : x <= y}}) :
          S \in {{q \in (r.pos + 1)..Len(file) : file[q] = delimiter}}})

(***************************************************************************)
(* The v2/v3 parser                                                        *)
(***************************************************************************)
Header(signature, version, nrofentries) ==
    [signature |-> signature, version |-> version,
     nrofentries |-> nrofentries]

NoHeader == Header(<<>>, 0, 0)

\* read_header: HEADER_STRUCT.unpack raises struct.error on a short read;
\* neither the signature nor the version is looked at.
read_header(r) ==
    Only({IF Len(rd.data) < HEADER_STRUCT_size
          THEN [err |-> "struct.error", header |-> NoHeader, r |-> rd.r]
          ELSE [err |-> "none",
                header |-> Header(SubSeq(rd.data, 1, 4),
                                  Unpack32(SubSeq(rd.data, 5, 8)),
                                  Unpack32(SubSeq(rd.data, 9, 12))),
                r |-> rd.r] :
          rd \in {ReaderRead(r, HEADER_STRUCT_size)}})

\* IndexEntry; id stands for the identity of the Python object
IndexEntry(id, stat, name) ==
    [id        |-> id,
     ctimesec  |-> Unpack32(SubSeq(stat, 1, 4)),
     ctimensec |-> Unpack32(SubSeq(stat, 5, 8)),
     mtimesec  |-> Unpack32(SubSeq(stat, 9, 12)),
     mtimensec |-> Unpack32(SubSeq(stat, 13, 16)),
     dev       |-> Unpack32(SubSeq(stat, 17, 20)),
     ino       |-> Unpack32(SubSeq(stat, 21, 24)),
     mode      |-> Unpack32(SubSeq(stat, 25, 28)),
     uid       |-> Unpack32(SubSeq(stat, 29, 32)),
     gid       |-> Unpack32(SubSeq(stat, 33, 36)),
     filesize  |-> Unpack32(SubSeq(stat, 37, 40)),
     sha1      |-> SubSeq(stat, 41, 60),
     flags     |-> UnpackS16(SubSeq(stat, 61, 62)),
     pathname  |-> dirname(name),
     filename  |-> basename(name)]

NoEntry == IndexEntry(0, Zeros(STAT_DATA_STRUCT_size), <<>>)

\* read_entry, lines 177-180: the padding count j for a name of readbytes
\* bytes (its NUL included)
PaddingJ(version, readbytes) ==
    IF version = 2 THEN 8 - ((readbytes + 5) % 8)
    ELSE 8 - ((readbytes + 1) % 8)

\* read_entry, lines 166-185: the name, the padding (a short read of the
\* padding raises nothing), the entry
ReadEntryName(st, xt, version, id) ==
    Only({IF nm.hang
          THEN [err |-> "hang", entry |-> NoEntry, r |-> nm.r]
          ELSE [err |-> "none",
                entry |-> IndexEntry(id, st.data, nm.string),
                r |-> ReaderRead(nm.r,
                                 PaddingJ(version, nm.readbytes) - 1).r] :
          nm \in {read_name(xt.r, NUL)}})

\* read_entry, lines 163-164: the extended flags of version 3
ReadEntryXtflags(st, version, id) ==
    Only({IF Len(xt.data) < XTFLAGS_STRUCT_size
          THEN [err |-> "struct.error", entry |-> NoEntry, r |-> xt.r]
          ELSE ReadEntryName(st, xt, version, id) :
          xt \in {IF version = 3 THEN ReaderRead(st.r, XTFLAGS_STRUCT_size)
                  ELSE [data |-> Zeros(XTFLAGS_STRUCT_size), r |-> st.r]}})

\* read_entry: [err, entry, r]
read_entry(r, version, id) ==
    Only({IF Len(st.data) < STAT_DATA_STRUCT_size
          THEN [err |-> "struct.error", entry |-> NoEntry, r |-> st.r]
          ELSE ReadEntryXtflags(st, version, id) :
          st \in {ReaderRead(r, STAT_DATA_STRUCT_size)}})

\* read_index_entries, line 200
Stage(flags) == BitAnd16(flags, 12288) \div 4096

\* IsActive with the stage 1 copy left out of the active list: a fault the
\* stage classification must tell from the code
IsActiveStage0Only(stage) == stage = 0

\* read_index_entries, lines 202-208: whether the entry joins indexentries
IsActive(stage) == stage = 0 \/ stage = 1

\* read_index_entries, lines 204-209: whether it joins conflictedentries
IsConflicted(stage) == stage # 0

\* defaultdict(list): d[k].append(v)
DictAppend(d, k, v) ==
    DictSet(d, k, IF k \in DOMAIN d THEN Append(d[k], v) ELSE <<v>>)

(***************************************************************************)
(* The cache-tree extension                                                *)
(***************************************************************************)
TreeExtensionData(path, entry_count, subtrees, sha1) ==
    [path |-> path, entry_count |-> entry_count, subtrees |-> subtrees,
     sha1 |-> sha1]

\* lines 225-228: pop while the top's remaining-subtree counter is 0
RECURSIVE PopStack(_)
PopStack(st) ==
    IF st.listsize >= 0 /\ st.subtreenr[st.listsize + 1] = 0
    THEN Only({PopStack(nx) :
               nx \in {[subtreenr |-> SubSeq(st.subtreenr, 1, st.listsize),
                        subtree   |-> SubSeq(st.subtree, 1, st.listsize),
                        listsize  |-> st.listsize - 1]}})
    ELSE st

\* lines 232-234: every non-empty name of the stack followed by "/"
RECURSIVE JoinStack(_, _)
JoinStack(subtree, i) ==
    IF i > Len(subtree) THEN <<>>
    ELSE (IF subtree[i] # <<>> THEN subtree[i] \o <<SLASH>> ELSE <<>>)
             \o JoinStack(subtree, i + 1)

\* lines 230-236: the key of the record on top of the popped stack pp
TreePath(pp, path) ==
    (IF pp.listsize > 0 THEN JoinStack(pp.subtree, 1) ELSE <<>>)
        \o path \o <<SLASH>>

\* CountDown that never counts a subtree off: a fault that keeps finished
\* directories on the stack
CountDownNever(pp) == pp.subtreenr

\* line 235: the parent's counter of remaining subtrees
CountDown(pp) ==
    IF pp.listsize > 0
    THEN [pp.subtreenr EXCEPT ![pp.listsize + 1] = @ - 1]
    ELSE pp.subtreenr

\* lines 244-255: push the record on the stack and store it
TreeRecordStore(st, pp, nm, ec, sb, obj) ==
    [err |-> "none",
     r |-> obj.r,
     read |-> st.read + nm.readbytes + ec.readbytes + sb.readbytes
                + (IF ec.string # STR_MINUS1 THEN 20 ELSE 0),
     subtreenr |-> Append(CountDown(pp), IntValue(sb.string, 10)),
     subtree |-> Append(pp.subtree, nm.string),
     listsize |-> pp.listsize + 1,
     extensiondata |->
         DictSet(st.extensiondata, TreePath(pp, nm.string),
                 TreeExtensionData(TreePath(pp, nm.string), ec.string,
                                   sb.string,
                                   IF ec.string # STR_MINUS1
                                   THEN hexlify(obj.data)
                                   ELSE STR_INVALID))]

\* lines 238-249: the counts, then the object name unless the count is "-1"
TreeRecordCounts(st, pp, nm) ==
    Only({Only({
        IF ec.hang THEN [st EXCEPT !.err = "hang", !.r = ec.r]
        ELSE IF sb.hang THEN [st EXCEPT !.err = "hang", !.r = sb.r]
        ELSE IF ~IntOk(sb.string, 10)
        THEN [st EXCEPT !.err = "ValueError", !.r = sb.r]
        ELSE Only({TreeRecordStore(st, pp, nm, ec, sb, obj) :
                   obj \in {IF ec.string # STR_MINUS1
                            THEN ReaderRead(sb.r, 20)
                            ELSE [data |-> <<>>, r |-> sb.r]}}) :
        sb \in {IF ec.hang THEN ec ELSE read_name(ec.r, LF)}}) :
        ec \in {read_name(nm.r, SP)}})

\* one iteration of the loop of read_tree_extensiondata, lines 222-255
TreeRecord(st) ==
    Only({IF nm.hang THEN [st EXCEPT !.err = "hang", !.r = nm.r]
          ELSE TreeRecordCounts(st, pp, nm) :
          nm \in {read_name(st.r, NUL)},
          pp \in {PopStack([subtreenr |-> st.subtreenr,
                            subtree |-> st.subtree,
                            listsize |-> st.listsize])}})

RECURSIVE TreeLoop(_, _)
TreeLoop(st, extensionsize) ==
    IF st.err # "none" \/ ~(st.read < extensionsize) THEN st
    ELSE Only({TreeLoop(nx, extensionsize) : nx \in {TreeRecord(st)}})

\* read_tree_extensiondata: [err, r, read, extensiondata, ...]
read_tree_extensiondata(r) ==
    Only({IF Len(sz.data) < 4
          THEN [err |-> "struct.error", r |-> sz.r, read |-> 0,
                subtreenr |-> <<0>>, subtree |-> << <<>> >>, listsize |-> 0,
                extensiondata |-> EmptyDict]
          ELSE Only({TreeLoop(st0, n) :
                     n \in {Unpack32(sz.data)},
                     st0 \in {[err |-> "none", r |-> sz.r, read |-> 0,
                               subtreenr |-> <<0>>, subtree |-> << <<>> >>,
                               listsize |-> 0,
                               extensiondata |-> EmptyDict]}}) :
          sz \in {ReaderRead(r, 4)}})

(***************************************************************************)
(* The resolve-undo extension                                              *)
(***************************************************************************)
ReucExtensionData(path, entry_mode, obj_names) ==
    [path |-> path,
     entry_mode0 |-> entry_mode[1], entry_mode1 |-> entry_mode[2],
     entry_mode2 |-> entry_mode[3],
     obj_names0 |-> obj_names[1], obj_names1 |-> obj_names[2],
     obj_names2 |-> obj_names[3]]

NoReucEntry == ReucExtensionData(<<>>, <<0, 0, 0>>, << <<>>, <<>>, <<>> >>)

\* read_reuc_extension_entry, lines 264-271: the n mode strings that follow,
\* [err, r, read, entry_mode]
RECURSIVE ReadModes(_, _)
ReadModes(st, n) ==
    IF n = 0 \/ st.err # "none" THEN st
    ELSE Only({
        ReadModes(IF m.hang THEN [st EXCEPT !.err = "hang", !.r = m.r]
                  ELSE IF ~IntOk(m.string, 8)
                  THEN [st EXCEPT !.err = "ValueError", !.r = m.r]
                  ELSE [err |-> "none", r |-> m.r,
                        read |-> st.read + m.readbytes,
                        entry_mode |-> Append(st.entry_mode,
                                              IntValue(m.string, 8))],
                  n - 1) :
        m \in {read_name(st.r, NUL)}})

\* read_reuc_extension_entry, lines 273-279: an object name for each
\* non-zero mode from the i-th on, [r, read, obj_names]
RECURSIVE ReadObjNames(_, _, _)
ReadObjNames(st, entry_mode, i) ==
    IF i > 3 THEN st
    ELSE IF entry_mode[i] = 0
    THEN ReadObjNames([st EXCEPT !.obj_names = Append(@, <<>>)],
                      entry_mode, i + 1)
    ELSE Only({ReadObjNames([r |-> o.r, read |-> st.read + 20,
                             obj_names |-> Append(st.obj_names, o.data)],
                            entry_mode, i + 1) :
               o \in {ReaderRead(st.r, 20)}})

\* read_reuc_extension_entry: [err, entry, read, r]
read_reuc_extension_entry(r) ==
    Only({
        IF nm.hang
        THEN [err |-> "hang", entry |-> NoReucEntry, read |-> 0, r |-> nm.r]
        ELSE Only({
            IF ms.err # "none"
            THEN [err |-> ms.err, entry |-> NoReucEntry, read |-> 0,
                  r |-> ms.r]
            ELSE Only({[err |-> "none",
                        entry |-> ReucExtensionData(nm.string, ms.entry_mode,
                                                    os.obj_names),
                        read |-> os.read,
                        r |-> os.r] :
                       os \in {ReadObjNames([r |-> ms.r, read |-> ms.read,
                                             obj_names |-> <<>>],
                                            ms.entry_mode, 1)}}) :
            ms \in {ReadModes([err |-> "none", r |-> nm.r,
                               read |-> nm.readbytes, entry_mode |-> <<>>],
                              3)}}) :
        nm \in {read_name(r, NUL)}})

\* line 293: "/".join(entry.path.split("/"))[:-1]
ReucKey(path) == SubSeq(path, 1, Len(path) - 1)

RECURSIVE ReucLoop(_, _)
ReucLoop(st, extensionsize) ==
    IF st.err # "none" \/ ~(st.read < extensionsize) THEN st
    ELSE Only({
        ReucLoop(IF e.err # "none"
                 THEN [st EXCEPT !.err = e.err, !.r = e.r]
                 ELSE [err |-> "none", r |-> e.r,
                       read |-> st.read + e.read,
                       extensiondata |->
                           DictAppend(st.extensiondata,
                                      ReucKey(e.entry.path), e.entry)],
                 extensionsize) :
        e \in {read_reuc_extension_entry(st.r)}})

\* read_reuc_extensiondata: [err, r, read, extensiondata]
read_reuc_extensiondata(r) ==
    Only({IF Len(sz.data) < 4
          THEN [err |-> "struct.error", r |-> sz.r, read |-> 0,
                extensiondata |-> EmptyDict]
          ELSE Only({ReucLoop(st0, n) :
                     n \in {Unpack32(sz.data)},
                     st0 \in {[err |-> "none", r |-> sz.r, read |-> 0,
                               extensiondata |-> EmptyDict]}}) :
          sz \in {ReaderRead(r, 4)}})

(***************************************************************************)
(* The v5 writer.  The output file object is the record [out, pos].        *)
(***************************************************************************)
DirEntry ==
    [nfiles |-> 0, flags |-> 0, cr |-> 0, ncr |-> 0, nsubtrees |-> 0,
     nentries |-> 0, objname |-> Zeros(20)]

\* file.write: the bytes replace what is at pos and extend the file
fw_write(fw, data) ==
    [out |-> SubSeq(fw.out, 1, fw.pos) \o data
                 \o SubSeq(fw.out, fw.pos + Len(data) + 1, Len(fw.out)),
     pos |-> fw.pos + Len(data)]

\* file.seek
fw_seek(fw, offset) == [out |-> fw.out, pos |-> offset]

\* write_calc_crc: [fw, crc]
write_calc_crc(fw, data, partialcrc) ==
    [fw |-> fw_write(fw, data), crc |-> calculate_crc(data, partialcrc)]

\* write_header, lines 339-340: the packed v5 header
HeaderV5(hdr, pths, fls) ==
    SubSeq(Pack20s(hdr.signature), 1, 4) \o Pack32(5)
        \o Pack32(Cardinality(pths)) \o Pack32(Len(fls)) \o Pack32(0)

write_header(fw, hdr, pths, fls) ==
    Only({fw_write(w.fw, Pack32(w.crc)) :
          w \in {write_calc_crc(fw, HeaderV5(hdr, pths, fls), 0)}})

\* write_fake_dir_offsets
write_fake_dir_offsets(fw, pths) ==
    fw_write(fw, Zeros(4 * Cardinality(pths)))

\* write_directories, line 356-359: the pathname bytes of a directory
DirPathBytes(p) == IF p = <<>> THEN <<NUL>> ELSE p \o <<SLASH, NUL>>

\* write_directories, the loop over sorted(paths) from its i-th element
RECURSIVE WriteDirectoriesLoop(_, _, _)
WriteDirectoriesLoop(st, todo, i) ==
    IF i > Len(todo) THEN st
    ELSE Only({Only({WriteDirectoriesLoop(nx, todo, i + 1) :
                     nx \in {[fw |-> fw_write(f1, Zeros(
                                       DIRECTORY_DATA_STRUCT_size + 4)),
                              diroffsets |-> Append(st.diroffsets, st.fw.pos),
                              dirwritedataoffsets |->
                                  DictSet(st.dirwritedataoffsets, todo[i],
                                          f1.pos)]}}) :
               f1 \in {fw_write(st.fw, DirPathBytes(todo[i]))}})

\* write_directories: [fw, diroffsets, dirwritedataoffsets]
write_directories(fw, pths) ==
    Only({WriteDirectoriesLoop([fw |-> fw, diroffsets |-> <<>>,
                                dirwritedataoffsets |-> EmptyDict], todo, 1) :
          todo \in {SortedStrs(pths)}})

\* write_fake_file_offsets: [fw, beginning]
write_fake_file_offsets(fw, entries) ==
    [fw |-> fw_write(fw, Zeros(4 * Len(entries))), beginning |-> fw.pos]

\* write_dir_offsets / write_file_offsets: the offsets from the i-th on as
\* u32 words
RECURSIVE PackOffsets(_, _)
PackOffsets(offsets, i) ==
    IF i > Len(offsets) THEN <<>>
    ELSE Pack32(offsets[i]) \o PackOffsets(offsets, i + 1)

\* write_dir_offsets that seeks one word short of the table: a fault that
\* overwrites the last word of the header
WriteDirOffsetsOverHeader(fw, offsets) ==
    fw_write(fw_seek(fw, HEADER_SIZE - 4), PackOffsets(offsets, 1))

write_dir_offsets(fw, offsets) ==
    fw_write(fw_seek(fw, HEADER_SIZE), PackOffsets(offsets, 1))

write_file_offsets(fw, foffsets, beginning) ==
    fw_write(fw_seek(fw, beginning), PackOffsets(foffsets, 1))

\* FileFlags without the shift of the stage: a fault the emitted flags field
\* must tell from the code
FileFlagsUnshifted(flags) == BitAnd16(flags, 32768) + BitAnd16(flags, 12288)

\* write_file_entry, lines 392-393
FileFlags(flags) == BitAnd16(flags, 32768) + BitAnd16(flags, 12288) * 2

\* write_file_entry, lines 396-398
StatCrc(entry, offset) ==
    calculate_crc(Pack32(offset) \o Pack32(entry.ctimesec)
                      \o Pack32(entry.ctimensec) \o Pack32(entry.ino)
                      \o Pack32(entry.filesize) \o Pack32(entry.dev)
                      \o Pack32(entry.uid) \o Pack32(entry.gid), 0)

\* write_file_entry, lines 400-401
StatData(entry, offset) ==
    Pack16(FileFlags(entry.flags)) \o Pack16(entry.mode)
        \o Pack32(entry.mtimesec) \o Pack32(entry.mtimensec)
        \o Pack32(StatCrc(entry, offset)) \o Pack20s(entry.sha1)

\* write_file_entry: [err, fw]; FILE_DATA_STRUCT packs mode as "H"
write_file_entry(fw, entry, offset) ==
    Only({IF entry.mode > 65535 THEN [err |-> "struct.error", fw |-> w1.fw]
          ELSE Only({[err |-> "none", fw |-> fw_write(w2.fw, Pack32(w2.crc))] :
                     w2 \in {write_calc_crc(w1.fw, StatData(entry, offset),
                                            w1.crc)}}) :
          w1 \in {write_calc_crc(fw, entry.filename \o <<NUL>>,
                                 calculate_crc(Pack32(offset), 0))}})

\* SortedByPathname that leaves the entries in the order read: a fault that
\* puts a file's offset in the slots of another directory
UnsortedByPathname(entries) == entries

\* sorted(indexentries, key=lambda k: k.pathname), a stable sort: the place
\* the i-th entry takes
RankByPathname(entries, i) ==
    Cardinality({j \in 1..Len(entries) :
                    \/ StrLess(entries[j].pathname, entries[i].pathname)
                    \/ (entries[j].pathname = entries[i].pathname /\ j <= i)})

SortedByPathname(entries) ==
    [k \in 1..Len(entries) |->
        entries[CHOOSE i \in 1..Len(entries) : RankByPathname(entries, i) = k]]

\* CountFile without the increment for a directory seen before: a fault the
\* nfiles count must tell from the code
CountFileOnce(dd, pathname) ==
    DictSet(dd, pathname, [DirEntry EXCEPT !.nfiles = 1])

\* write_file_data, lines 414-417: count the entry in its directory
CountFile(dd, pathname) ==
    DictSet(dd, pathname,
            IF pathname \in DOMAIN dd
            THEN [dd[pathname] EXCEPT !.nfiles = @ + 1]
            ELSE [DirEntry EXCEPT !.nfiles = @ + 1])

\* write_file_data, the loop over the sorted entries from the i-th on
RECURSIVE WriteFileDataLoop(_, _, _)
WriteFileDataLoop(st, todo, i) ==
    IF i > Len(todo) \/ st.err # "none" THEN st
    ELSE Only({Only({WriteFileDataLoop(nx, todo, i + 1) :
                     nx \in {IF w.err # "none"
                             THEN [st EXCEPT !.err = w.err, !.fw = w.fw,
                                      !.fileoffsets = Append(@, st.fw.pos)]
                             ELSE [err |-> "none", fw |-> w.fw,
                                   fileoffsets |->
                                       Append(st.fileoffsets, st.fw.pos),
                                   dirdata |->
                                       CountFile(st.dirdata,
                                                 todo[i].pathname)]}}) :
               w \in {write_file_entry(st.fw, todo[i], st.fw.pos)}})

\* write_file_data: [err, fw, fileoffsets, dirdata]
write_file_data(fw, entries) ==
    Only({WriteFileDataLoop([err |-> "none", fw |-> fw, fileoffsets |-> <<>>,
                             dirdata |-> EmptyDict], todo, 1) :
          todo \in {SortedByPathname(entries)}})

\* str.strip("/")
LStripLen(s) ==
    IF \A i \in 1..Len(s) : s[i] = SLASH THEN Len(s)
    ELSE (CHOOSE i \in 1..Len(s) :
              s[i] # SLASH /\ \A j \in 1..(i - 1) : s[j] = SLASH) - 1

StripSlash(s) ==
    Only({RStripSlash(t) : t \in {SubSeq(s, LStripLen(s) + 1, Len(s))}})

\* compile_cache_tree_data, lines 463-464: the objname taken from the
\* extension record (the hex text hexlify made of it)
CacheTreeObjname(entry, old) ==
    IF entry.sha1 # STR_INVALID THEN entry.sha1 ELSE old

\* CompileOne that files every record under the root: a fault that makes
\* the merge depend on the order of the items
CompileOneAtRoot(dd, entry) ==
    [dd EXCEPT ![<<>>] = [@ EXCEPT
        !.nentries = IntValue(entry.entry_count, 10),
        !.nsubtrees = IntValue(entry.subtrees, 10),
        !.objname = CacheTreeObjname(entry, @)]]

\* compile_cache_tree_data, one item of extensiondata.iteritems()
CompileOne(dd, entry) ==
    Only({[dd EXCEPT ![k] = [@ EXCEPT
              !.nentries = IntValue(entry.entry_count, 10),
              !.nsubtrees = IntValue(entry.subtrees, 10),
              !.objname = CacheTreeObjname(entry, @)]] :
          k \in {StripSlash(entry.path)}})

\* compile_cache_tree_data, the items from the i-th on in the given order
RECURSIVE CompileLoop(_, _, _, _)
CompileLoop(dd, extensiondata, order, i) ==
    IF i > Len(order) THEN dd
    ELSE Only({CompileLoop(nx, extensiondata, order, i + 1) :
               nx \in {CompileOne(dd, extensiondata[order[i]])}})

\* the exception the loop of compile_cache_tree_data raises on an item
CompileError(dd, entry) ==
    IF ~IntOk(entry.entry_count, 10) THEN "ValueError"
    ELSE IF StripSlash(entry.path) \notin DOMAIN dd THEN "KeyError"
    ELSE "none"

\* every order in which a dict of these keys may be iterated
Orders(S) ==
    {o \in [1..Cardinality(S) -> S] : \A i, j \in DOMAIN o :
                                          i # j => o[i] # o[j]}

\* DIRECTORY_DATA_STRUCT.pack: "H" and "I" take no value below 0
DirEntryPackable(e, foffset) ==
    /\ e.flags >= 0 /\ e.flags <= 65535
    /\ foffset >= 0 /\ e.cr >= 0 /\ e.ncr >= 0 /\ e.nsubtrees >= 0
    /\ e.nfiles >= 0 /\ e.nentries >= 0

DirEntryBytes(e, foffset) ==
    Pack16(e.flags) \o Pack32(foffset) \o Pack32(e.cr) \o Pack32(e.ncr)
        \o Pack32(e.nsubtrees) \o Pack32(e.nfiles) \o Pack32(e.nentries)
        \o Pack20s(e.objname)

\* write_directory_data, lines 433-449: the record of pathname p
WriteDirectoryRecord(st, e, p, offset) ==
    IF ~DirEntryPackable(e, st.foffset)
    THEN [st EXCEPT !.err = "struct.error", !.fw = fw_seek(st.fw, offset)]
    ELSE Only({[err |-> "none",
                fw |-> fw_write(w.fw, Pack32(w.crc)),
                foffset |-> st.foffset + e.nfiles * 4] :
               w \in {write_calc_crc(fw_seek(st.fw, offset),
                                     DirEntryBytes(e, st.foffset),
                                     calculate_crc(DirPathBytes(p), 0))}})

\* write_directory_data, the loop over sorted(dirdata.iteritems()) from the
\* i-th item on
RECURSIVE WriteDirectoryDataLoop(_, _, _, _, _)
WriteDirectoryDataLoop(st, dd, offsets, todo, i) ==
    IF i > Len(todo) \/ st.err # "none" THEN st
    ELSE Only({WriteDirectoryDataLoop(nx, dd, offsets, todo, i + 1) :
               nx \in {IF todo[i] \notin DOMAIN offsets THEN st
                       ELSE WriteDirectoryRecord(st, dd[todo[i]], todo[i],
                                                 offsets[todo[i]])}})

\* write_directory_data: [err, fw, foffset]
write_directory_data(fw, dd, offsets, beginning) ==
    Only({WriteDirectoryDataLoop([err |-> "none", fw |-> fw,
                                  foffset |-> beginning],
                                 dd, offsets, todo, 1) :
          todo \in {SortedStrs(DOMAIN dd)}})

(***************************************************************************)
(* The input files of the model.  An input is described by the record      *)
(* [sig, version, ents, exts, corrupt, args]; FileOf builds its bytes in   *)
(* the layout read_index reads.                                            *)
(***************************************************************************)
NAME_a   == <<97>>
NAME_s_a == <<115, 47, 97>>
NAME_s_b == <<115, 47, 98>>
NAME_s   == <<115>>
Names == {NAME_a, NAME_s_a, NAME_s_b}

OBJ_A == [i \in 1..20 |-> 160 + i]
OBJ_B == [i \in 1..20 |-> 10 * i]

Ent(name, stage) == [name |-> name, stage |-> stage]

EntrySpecs == {Ent(n, st) : n \in Names, st \in 0..3}

RECURSIVE SeqsUpTo(_, _)
SeqsUpTo(S, n) ==
    IF n = 0 THEN {<<>>}
    ELSE SeqsUpTo(S, n - 1)
             \cup {Append(q, x) : q \in SeqsUpTo(S, n - 1), x \in S}

\* the entry lists of the inputs that carry extensions or odd headers
FixedEntryLists ==
    { <<>>,
      <<Ent(NAME_a, 0)>>,
      <<Ent(NAME_s_a, 0), Ent(NAME_s_b, 0)>>,
      <<Ent(NAME_a, 0), Ent(NAME_s_a, 0)>>,
      <<Ent(NAME_a, 1), Ent(NAME_a, 2), Ent(NAME_a, 3)>>,
      <<Ent(NAME_a, 0), Ent(NAME_s_a, 2)>> }

TreeRec(name, entry_count, subtrees, obj) ==
    [name |-> name, entry_count |-> entry_count, subtrees |-> subtrees,
     obj |-> obj]

\* "1 0", "-1 1" + "2 0", "2 1" + "-1 0", "2 1" + "1 0"
TreeBlocks ==
    { << TreeRec(<<>>, <<49>>, <<48>>, OBJ_A) >>,
      << TreeRec(<<>>, STR_MINUS1, <<49>>, <<>>),
         TreeRec(NAME_s, <<50>>, <<48>>, OBJ_B) >>,
      << TreeRec(<<>>, <<50>>, <<49>>, OBJ_A),
         TreeRec(NAME_s, STR_MINUS1, <<48>>, <<>>) >>,
      << TreeRec(<<>>, <<50>>, <<49>>, OBJ_A),
         TreeRec(NAME_s, <<49>>, <<48>>, OBJ_B) >> }

ReucRec(path, modes, objs) == [path |-> path, modes |-> modes, objs |-> objs]

MODE_FILE == <<49, 48, 48, 54, 52, 52>>
MODE_NONE == <<48>>

ReucBlocks ==
    { << ReucRec(NAME_s_a, <<MODE_FILE, MODE_NONE, MODE_FILE>>,
                 <<OBJ_A, OBJ_B>>) >> }

TreeExt(recs) == [tag |-> "TREE", recs |-> recs, less |-> 0]
ReucExt(recs) == [tag |-> "REUC", recs |-> recs, less |-> 0]

\* the block x with a length word that declares n bytes less than it holds
ShortExt(x, n) == [x EXCEPT !.less = n]

\* the lists of ExtLists with every length word one byte short
RECURSIVE ShortExts(_)
ShortExts(exts) ==
    IF exts = <<>> THEN <<>>
    ELSE <<ShortExt(exts[1], 1)>> \o ShortExts(Tail(exts))

\* no extension, TREE only, REUC only, TREE then REUC
ExtLists ==
    {<<>>} \cup {<<TreeExt(t)>> : t \in TreeBlocks}
           \cup {<<ReucExt(u)>> : u \in ReucBlocks}
           \cup {<<TreeExt(t), ReucExt(u)>> : t \in TreeBlocks,
                                              u \in ReucBlocks}

ArgLists ==
    {<<>>, <<"-h">>, <<"-i">>, <<"-c">>, <<"-u">>, <<"-x">>,
     <<"-h", "-i", "-c", "-u">>}

Input(sig, version, ents, exts, corrupt, as) ==
    [sig |-> sig, version |-> version, ents |-> ents, exts |-> exts,
     corrupt |-> corrupt, args |-> as, cut |-> 0]

\* the input in with its last n bytes missing
CutInput(in, n) == [in EXCEPT !.cut = n]

STR_JUNK == <<74, 85, 78, 75>>

EntryFlags(e) == e.stage * 4096 + Len(e.name)

EntryBytes(version, e, id) ==
    Pack32(id) \o Pack32(0) \o Pack32(id) \o Pack32(0) \o Pack32(1)
        \o Pack32(id) \o Pack32(33188) \o Pack32(0) \o Pack32(0)
        \o Pack32(id) \o [i \in 1..20 |-> id] \o Pack16(EntryFlags(e))
        \o (IF version = 3 THEN Zeros(XTFLAGS_STRUCT_size) ELSE <<>>)
        \o e.name \o <<NUL>>
        \o Zeros(PaddingJ(version, Len(e.name) + 1) - 1)

RECURSIVE EntriesBytes(_, _, _)
EntriesBytes(version, ents, id) ==
    IF ents = <<>> THEN <<>>
    ELSE EntryBytes(version, ents[1], id)
             \o EntriesBytes(version, Tail(ents), id + 1)

TreeRecBytes(t) ==
    t.name \o <<NUL>> \o t.entry_count \o <<SP>> \o t.subtrees \o <<LF>>
        \o t.obj

ReucRecBytes(u) ==
    u.path \o <<NUL>> \o u.modes[1] \o <<NUL>> \o u.modes[2] \o <<NUL>>
        \o u.modes[3] \o <<NUL>>
        \o (IF u.objs = <<>> THEN <<>> ELSE u.objs[1])
        \o (IF Len(u.objs) < 2 THEN <<>> ELSE u.objs[2])
        \o (IF Len(u.objs) < 3 THEN <<>> ELSE u.objs[3])

RECURSIVE RecsBytes(_, _)
RecsBytes(tag, recs) ==
    IF recs = <<>> THEN <<>>
    ELSE (IF tag = "TREE" THEN TreeRecBytes(recs[1])
          ELSE ReucRecBytes(recs[1])) \o RecsBytes(tag, Tail(recs))

ExtBytes(x) ==
    Only({(IF x.tag = "TREE" THEN STR_TREE ELSE STR_REUC)
              \o Pack32(Len(body) - x.less) \o body :
          body \in {RecsBytes(x.tag, x.recs)}})

RECURSIVE ExtsBytes(_)
ExtsBytes(exts) ==
    IF exts = <<>> THEN <<>> ELSE ExtBytes(exts[1]) \o ExtsBytes(Tail(exts))

\* everything the trailing SHA-1 covers
ContentOf(in) ==
    in.sig \o Pack32(in.version) \o Pack32(Len(in.ents))
        \o EntriesBytes(in.version, in.ents, 1) \o ExtsBytes(in.exts)

\* the trailer: the digest of the content, or that digest with the low bit
\* of byte number corrupt flipped
TrailerOf(in) ==
    Only({[i \in 1..20 |->
              IF i = in.corrupt
              THEN (IF d[i] % 2 = 0 THEN d[i] + 1 ELSE d[i] - 1)
              ELSE d[i]] :
          d \in {sha1_digest(ContentOf(in))}})

\* the bytes of an input that is not cut short
WholeFileOf(in) == ContentOf(in) \o TrailerOf(in)

FileOf(in) ==
    Only({SubSeq(whole, 1, Len(whole) - in.cut) :
          whole \in {WholeFileOf(in)}})

\* the inputs whose every proper prefix is an input as well: entries only,
\* and an entry followed by a TREE block and a REUC block
CutBases ==
    {Input(STR_DIRC, 2, <<Ent(NAME_s_a, 0)>>, <<>>, 0, <<>>)}
    \cup
    {Input(STR_DIRC, 3, <<Ent(NAME_a, 1)>>, <<TreeExt(t), ReucExt(u)>>, 0,
           <<"-h">>) :
        t \in {<< TreeRec(<<>>, <<50>>, <<49>>, OBJ_A),
                  TreeRec(NAME_s, <<49>>, <<48>>, OBJ_B) >>},
        u \in ReucBlocks}

Inputs ==
    {Input(STR_DIRC, 2, e, <<>>, 0, <<>>) : e \in SeqsUpTo(EntrySpecs, MaxEntries)}
    \cup
    {Input(STR_DIRC, v, e, x, c, <<>>) :
        v \in {2, 3}, e \in FixedEntryLists, x \in ExtLists, c \in {0, 1, 20}}
    \cup
    {Input(STR_DIRC, 2, e, x, c, a) :
        e \in {<<>>, <<Ent(NAME_s_a, 1)>>}, x \in ExtLists, c \in {0, 20},
        a \in ArgLists}
    \cup
    {Input(sg, v, e, <<>>, 0, a) :
        sg \in {STR_DIRC, STR_JUNK}, v \in {2, 3, 4}, e \in FixedEntryLists,
        a \in {<<>>, <<"-h", "-i", "-c", "-u">>}}
    \cup
    UNION {{CutInput(b, n) : n \in 1..Len(WholeFileOf(b))} : b \in CutBases}
    \cup
    {Input(STR_DIRC, v, <<Ent(NAME_a, 0), Ent(NAME_s_a, 0)>>, ShortExts(x), 0,
           <<>>) :
        v \in {2, 3}, x \in ExtLists \ {<<>>}}

(***************************************************************************)
(* The run of main                                                         *)
(***************************************************************************)
\* the locals of read_tree_extensiondata and read_reuc_extensiondata: the
\* declared size, the bytes counted, and the stack of the cache-tree reader
Locals(extensionsize, read, subtreenr, subtree, listsize) ==
    [extensionsize |-> extensionsize, read |-> read, subtreenr |-> subtreenr,
     subtree |-> subtree, listsize |-> listsize]

NoLocals == Locals(0, 0, <<>>, <<>>, 0)

\* lines 215-221 and 286-290: the length word the reader r is about to read
DeclaredSize(r) ==
    IF r.pos + 4 <= Len(file)
    THEN Unpack32(SubSeq(file, r.pos + 1, r.pos + 4))
    ELSE 0

\* the locals when the extension reader started at r ends with x
LocalsOf(r, x, tag) ==
    IF tag = STR_TREE
    THEN Locals(DeclaredSize(r), x.read, x.subtreenr, x.subtree, x.listsize)
    ELSE Locals(DeclaredSize(r), x.read, <<>>, <<>>, 0)

Init ==
    /\ input \in Inputs
    /\ file = FileOf(input)
    /\ args = input.args
    /\ pc = "read_header"
    /\ err = "none"
    /\ pos = 0
    /\ sha = <<>>
    /\ header = NoHeader
    /\ indexentries = <<>>
    /\ conflictedentries = EmptyDict
    /\ paths = {}
    /\ files = <<>>
    /\ consumed = <<>>
    /\ treeextensiondata = EmptyDict
    /\ reucextensiondata = EmptyDict
    /\ ext = <<>>
    /\ sha1read = <<>>
    /\ argi = 1
    /\ printed = <<>>
    /\ opened = FALSE
    /\ out = <<>>
    /\ fwpos = 0
    /\ diroffsets = <<>>
    /\ dirwritedataoffsets = EmptyDict
    /\ fileoffsetbeginning = 0
    /\ fileoffsets = <<>>
    /\ dirdata = EmptyDict
    /\ locals = NoLocals

\* an exception leaves main; a hang is read_name looping at the end of file
Raise(e) ==
    /\ pc' = IF e = "hang" THEN "hang" ELSE "error"
    /\ err' = e

\* read_index, lines 470-471
ReadHeader ==
    /\ pc = "read_header"
    /\ \E h \in {read_header(Reader(pos, sha))} :
           /\ pos' = h.r.pos
           /\ sha' = h.r.sha
           /\ IF h.err # "none"
              THEN Raise(h.err) /\ UNCHANGED header
              ELSE /\ header' = h.header
                   /\ err' = err
                   /\ pc' = IF h.header.nrofentries = 0 THEN "peek_ext"
                            ELSE "read_entry"
    /\ UNCHANGED <<locals, input, file, args, indexentries, conflictedentries, paths,
                   files, consumed, treeextensiondata, reucextensiondata,
                   ext, sha1read, argi, printed>>
    /\ UNCHANGED writeVars

\* read_index_entries: one iteration of the loop of lines 194-209
ReadEntry ==
    /\ pc = "read_entry"
    /\ \E e \in {read_entry(Reader(pos, sha), header.version,
                            Len(files) + 1)} :
         \E stage \in {Stage(e.entry.flags)} :
           /\ pos' = e.r.pos
           /\ sha' = e.r.sha
           /\ IF e.err # "none"
              THEN /\ Raise(e.err)
                   /\ UNCHANGED <<indexentries, conflictedentries, paths,
                                  files, consumed>>
              ELSE /\ paths' = paths \cup {e.entry.pathname}
                   /\ files' = Append(files, e.entry.filename)
                   /\ consumed' = Append(consumed, e.r.pos - pos)
                   /\ indexentries' =
                          IF IsActive(stage)
                          THEN Append(indexentries, e.entry)
                          ELSE indexentries
                   /\ conflictedentries' =
                          IF IsConflicted(stage)
                          THEN DictAppend(conflictedentries,
                                          e.entry.pathname, e.entry)
                          ELSE conflictedentries
                   /\ err' = err
                   /\ pc' = IF Len(files) + 1 = header.nrofentries
                            THEN "peek_ext" ELSE "read_entry"
    /\ UNCHANGED <<locals, input, file, args, header, treeextensiondata,
                   reucextensiondata, ext, sha1read, argi, printed>>
    /\ UNCHANGED writeVars

\* read_index, lines 476-478: the first peek
PeekExtension ==
    /\ pc = "peek_ext"
    /\ \E pk \in {ReaderReadWithoutUpdatingSha1(Reader(pos, sha), 4)} :
           /\ ext' = pk.data
           /\ pos' = pk.r.pos
           /\ sha' = pk.r.sha
           /\ pc' = IF pk.data = STR_TREE \/ pk.data = STR_REUC
                    THEN "extension1" ELSE "read_trailer"
    /\ UNCHANGED <<locals, input, file, args, err, header, indexentries,
                   conflictedentries, paths, files, consumed,
                   treeextensiondata, reucextensiondata, sha1read, argi,
                   printed>>
    /\ UNCHANGED writeVars

\* read_index, lines 480-486: the first extension and the second peek
ReadExtension1 ==
    /\ pc = "extension1"
    /\ \E x \in {IF ext = STR_TREE
                 THEN read_tree_extensiondata(
                          ReaderUpdateSha1(Reader(pos, sha), ext))
                 ELSE read_reuc_extensiondata(
                          ReaderUpdateSha1(Reader(pos, sha), ext))} :
         \E pk \in {ReaderReadWithoutUpdatingSha1(x.r, 4)} :
           /\ locals' = LocalsOf(Reader(pos, sha), x, ext)
           /\ IF x.err # "none"
              THEN /\ Raise(x.err)
                   /\ pos' = x.r.pos
                   /\ sha' = x.r.sha
                   /\ UNCHANGED <<treeextensiondata, reucextensiondata, ext>>
              ELSE /\ treeextensiondata' =
                          IF ext = STR_TREE THEN x.extensiondata
                          ELSE treeextensiondata
                   /\ reucextensiondata' =
                          IF ext = STR_TREE THEN reucextensiondata
                          ELSE x.extensiondata
                   /\ ext' = pk.data
                   /\ pos' = pk.r.pos
                   /\ sha' = pk.r.sha
                   /\ err' = err
                   /\ pc' = IF pk.data = STR_REUC THEN "extension2"
                            ELSE "read_trailer"
    /\ UNCHANGED <<input, file, args, header, indexentries,
                   conflictedentries, paths, files, consumed, sha1read, argi,
                   printed>>
    /\ UNCHANGED writeVars

\* read_index, lines 488-490: a resolve-undo block after the first extension
ReadExtension2 ==
    /\ pc = "extension2"
    /\ \E x \in {read_reuc_extensiondata(
                     ReaderUpdateSha1(Reader(pos, sha), ext))} :
           /\ locals' = LocalsOf(Reader(pos, sha), x, ext)
           /\ pos' = x.r.pos
           /\ sha' = x.r.sha
           /\ IF x.err # "none"
              THEN Raise(x.err) /\ UNCHANGED reucextensiondata
              ELSE /\ reucextensiondata' = x.extensiondata
                   /\ err' = err
                   /\ pc' = "read_trailer"
    /\ UNCHANGED <<input, file, args, header, indexentries,
                   conflictedentries, paths, files, consumed,
                   treeextensiondata, ext, sha1read, argi, printed>>
    /\ UNCHANGED writeVars

\* TrailerRead that forgets the 4 bytes the peek already holds: a fault the
\* digest coverage must tell from the code
TrailerReadPlain(r, e) == ReaderReadWithoutUpdatingSha1(r, 20)

\* read_index, lines 494-497: the expected digest
TrailerRead(r, e) ==
    IF e = STR_TREE \/ e = STR_REUC
    THEN ReaderReadWithoutUpdatingSha1(r, 20)
    ELSE Only({[data |-> e \o rest.data, r |-> rest.r] :
               rest \in {ReaderReadWithoutUpdatingSha1(r, 16)}})

ReadTrailer ==
    /\ pc = "read_trailer"
    /\ \E t \in {TrailerRead(Reader(pos, sha), ext)} :
           /\ sha1read' = t.data
           /\ pos' = t.r.pos
           /\ sha' = t.r.sha
    /\ pc' = "compare"
    /\ UNCHANGED <<locals, input, file, args, err, header, indexentries,
                   conflictedentries, paths, files, consumed,
                   treeextensiondata, reucextensiondata, ext, argi, printed>>
    /\ UNCHANGED writeVars

\* DigestDiffers with the comparison dropped: a fault the ordering of
\* verification and output must tell from the code
DigestNeverDiffers(absorbed, expected) == FALSE

\* read_index, line 499: sha1.hexdigest() != binascii.hexlify(sha1read)
DigestDiffers(absorbed, expected) ==
    hexlify(sha1_digest(absorbed)) # hexlify(expected)

\* read_index, lines 499-503, and the return into main
CompareDigest ==
    /\ pc = "compare"
    /\ IF DigestDiffers(sha, sha1read)
       THEN Raise("SHAError")
       ELSE /\ err' = err
            /\ pc' = IF args = <<>> THEN "write_header" ELSE "dump"
    /\ UNCHANGED <<locals, input, file, args, argi, printed>>
    /\ UNCHANGED readerVars
    /\ UNCHANGED parseVars
    /\ UNCHANGED writeVars

\* the number of entries of a defaultdict(list)
RECURSIVE DictListTotal(_, _)
DictListTotal(d, keys) ==
    IF keys = {} THEN 0
    ELSE Only({Len(d[k]) + DictListTotal(d, keys \ {k}) :
               k \in {CHOOSE x \in keys : TRUE}})

\* main, lines 534-541: what one argument prints, one item per dump record
DumpOf(a) ==
    IF a = "-h" THEN <<"header">>
    ELSE IF a = "-i" THEN [i \in 1..Len(indexentries) |-> "entry"]
    ELSE IF a = "-c"
    THEN [i \in 1..Cardinality(DOMAIN treeextensiondata) |-> "cache-tree"]
    ELSE IF a = "-u"
    THEN [i \in 1..DictListTotal(reucextensiondata,
                                 DOMAIN reucextensiondata) |-> "resolve-undo"]
    ELSE <<>>

\* main: one iteration of the loop over args
Dump ==
    /\ pc = "dump"
    /\ printed' = printed \o DumpOf(args[argi])
    /\ argi' = argi + 1
    /\ pc' = IF argi = Len(args) THEN "write_header" ELSE "dump"
    /\ UNCHANGED <<locals, input, file, args, err>>
    /\ UNCHANGED readerVars
    /\ UNCHANGED parseVars
    /\ UNCHANGED writeVars

Fw == [out |-> out, pos |-> fwpos]

\* write_index_v5, lines 508-510: open the output and write the header
WriteHeader ==
    /\ pc = "write_header"
    /\ opened' = TRUE
    /\ \E fw \in {write_header([out |-> <<>>, pos |-> 0], header, paths,
                              files)} :
           out' = fw.out /\ fwpos' = fw.pos
    /\ pc' = "write_fake_dir_offsets"
    /\ UNCHANGED <<locals, input, file, args, err, argi, printed, diroffsets,
                   dirwritedataoffsets, fileoffsetbeginning, fileoffsets,
                   dirdata>>
    /\ UNCHANGED readerVars
    /\ UNCHANGED parseVars

\* write_index_v5, line 511
WriteFakeDirOffsets ==
    /\ pc = "write_fake_dir_offsets"
    /\ \E fw \in {write_fake_dir_offsets(Fw, paths)} :
           out' = fw.out /\ fwpos' = fw.pos
    /\ pc' = "write_directories"
    /\ UNCHANGED <<locals, input, file, args, err, argi, printed, opened, diroffsets,
                   dirwritedataoffsets, fileoffsetbeginning, fileoffsets,
                   dirdata>>
    /\ UNCHANGED readerVars
    /\ UNCHANGED parseVars

\* write_index_v5, lines 512-513
WriteDirectories ==
    /\ pc = "write_directories"
    /\ \E w \in {write_directories(Fw, paths)} :
           /\ out' = w.fw.out
           /\ fwpos' = w.fw.pos
           /\ diroffsets' = w.diroffsets
           /\ dirwritedataoffsets' = w.dirwritedataoffsets
    /\ pc' = "write_fake_file_offsets"
    /\ UNCHANGED <<locals, input, file, args, err, argi, printed, opened,
                   fileoffsetbeginning, fileoffsets, dirdata>>
    /\ UNCHANGED readerVars
    /\ UNCHANGED parseVars

\* write_index_v5, line 515
WriteFakeFileOffsets ==
    /\ pc = "write_fake_file_offsets"
    /\ \E w \in {write_fake_file_offsets(Fw, indexentries)} :
           /\ out' = w.fw.out
           /\ fwpos' = w.fw.pos
           /\ fileoffsetbeginning' = w.beginning
    /\ pc' = "write_file_data"
    /\ UNCHANGED <<locals, input, file, args, err, argi, printed, opened, diroffsets,
                   dirwritedataoffsets, fileoffsets, dirdata>>
    /\ UNCHANGED readerVars
    /\ UNCHANGED parseVars

\* write_index_v5, line 516
WriteFileData ==
    /\ pc = "write_file_data"
    /\ \E w \in {write_file_data(Fw, indexentries)} :
           /\ out' = w.fw.out
           /\ fwpos' = w.fw.pos
           /\ IF w.err # "none"
              THEN Raise(w.err) /\ UNCHANGED <<fileoffsets, dirdata>>
              ELSE /\ fileoffsets' = w.fileoffsets
                   /\ dirdata' = w.dirdata
                   /\ err' = err
                   /\ pc' = "write_dir_offsets"
    /\ UNCHANGED <<locals, input, file, args, argi, printed, opened, diroffsets,
                   dirwritedataoffsets, fileoffsetbeginning>>
    /\ UNCHANGED readerVars
    /\ UNCHANGED parseVars

\* write_index_v5, line 521
WriteDirOffsets ==
    /\ pc = "write_dir_offsets"
    /\ \E fw \in {write_dir_offsets(Fw, diroffsets)} :
           out' = fw.out /\ fwpos' = fw.pos
    /\ pc' = "write_file_offsets"
    /\ UNCHANGED <<locals, input, file, args, err, argi, printed, opened, diroffsets,
                   dirwritedataoffsets, fileoffsetbeginning, fileoffsets,
                   dirdata>>
    /\ UNCHANGED readerVars
    /\ UNCHANGED parseVars

\* write_index_v5, line 522
WriteFileOffsets ==
    /\ pc = "write_file_offsets"
    /\ \E fw \in {write_file_offsets(Fw, fileoffsets,
                                    fileoffsetbeginning)} :
           out' = fw.out /\ fwpos' = fw.pos
    /\ pc' = "compile_cache_tree_data"
    /\ UNCHANGED <<locals, input, file, args, err, argi, printed, opened, diroffsets,
                   dirwritedataoffsets, fileoffsetbeginning, fileoffsets,
                   dirdata>>
    /\ UNCHANGED readerVars
    /\ UNCHANGED parseVars

\* write_index_v5, line 524: the items of the dict come in some order, and
\* the first item that cannot be merged raises
CompileCacheTreeData ==
    /\ pc = "compile_cache_tree_data"
    /\ \E bad \in {{k \in DOMAIN treeextensiondata :
                      CompileError(dirdata, treeextensiondata[k]) # "none"}} :
           IF bad # {}
           THEN /\ \E k \in bad :
                       Raise(CompileError(dirdata, treeextensiondata[k]))
                /\ UNCHANGED dirdata
           ELSE /\ \E order \in Orders(DOMAIN treeextensiondata) :
                       dirdata' = CompileLoop(dirdata, treeextensiondata,
                                              order, 1)
                /\ err' = err
                /\ pc' = "write_directory_data"
    /\ UNCHANGED <<locals, input, file, args, argi, printed, opened, out, fwpos,
                   diroffsets, dirwritedataoffsets, fileoffsetbeginning,
                   fileoffsets>>
    /\ UNCHANGED readerVars
    /\ UNCHANGED parseVars

\* write_index_v5, lines 525-526
WriteDirectoryData ==
    /\ pc = "write_directory_data"
    /\ \E w \in {write_directory_data(Fw, dirdata, dirwritedataoffsets,
                                      fileoffsetbeginning)} :
           /\ out' = w.fw.out
           /\ fwpos' = w.fw.pos
           /\ IF w.err # "none" THEN Raise(w.err)
              ELSE err' = err /\ pc' = "done"
    /\ UNCHANGED <<locals, input, file, args, argi, printed, opened, diroffsets,
                   dirwritedataoffsets, fileoffsetbeginning, fileoffsets,
                   dirdata>>
    /\ UNCHANGED readerVars
    /\ UNCHANGED parseVars

Next ==
    \/ ReadHeader
    \/ ReadEntry
    \/ PeekExtension
    \/ ReadExtension1
    \/ ReadExtension2
    \/ ReadTrailer
    \/ CompareDigest
    \/ Dump
    \/ WriteHeader
    \/ WriteFakeDirOffsets
    \/ WriteDirectories
    \/ WriteFakeFileOffsets
    \/ WriteFileData
    \/ WriteDirOffsets
    \/ WriteFileOffsets
    \/ CompileCacheTreeData
    \/ WriteDirectoryData

Spec == Init /\ [][Next]_vars

(***************************************************************************)
(* What the properties read of the state                                   *)
(***************************************************************************)
\* the positions of main at which read_index has not compared the digests
ReadingPcs ==
    {"read_header", "read_entry", "peek_ext", "extension1", "extension2",
     "read_trailer", "compare"}

\* the positions of write_index_v5 after write_file_data has returned
AfterFileDataPcs ==
    {"write_dir_offsets", "write_file_offsets", "compile_cache_tree_data",
     "write_directory_data", "done"}

\* the last 20 bytes of the input are the digest of the bytes before them
TrailerMatches ==
    /\ Len(file) >= 20
    /\ hexlify(sha1_digest(SubSeq(file, 1, Len(file) - 20)))
           = hexlify(SubSeq(file, Len(file) - 19, Len(file)))

\* an input with the signature and a version the format defines
WellFormed(in) ==
    /\ in.sig = STR_DIRC /\ in.version \in {2, 3} /\ in.cut = 0
    /\ \A i \in DOMAIN in.exts : in.exts[i].less = 0

\* the u32 of the output at a byte offset
OutU32(at) == Unpack32(SubSeq(out, at + 1, at + 4))

\* HEADER_V5_STRUCT: signature, version, n_dirs, n_files, fanout base
HeaderNDirs == OutU32(8)

HeaderNFiles == OutU32(12)

\* DIRECTORY_DATA_STRUCT: flags (H), foffset, cr, ncr, nsubtrees, nfiles,
\* nentries (I each), objname (20s), at dirwritedataoffsets[p]
DirRecordFoffset(p) == OutU32(dirwritedataoffsets[p] + 2)

DirRecordNfiles(p) == OutU32(dirwritedataoffsets[p] + 18)

DirRecordObjname(p) ==
    SubSeq(out, dirwritedataoffsets[p] + 27, dirwritedataoffsets[p] + 46)

\* how often the entry object id occurs in a list of entries
CountIn(seq, id) == Cardinality({i \in DOMAIN seq : seq[i].id = id})

\* the places <<key, index>> of the conflicted map
ConflictedPlaces ==
    UNION {{<<k, i>> : i \in DOMAIN conflictedentries[k]} :
           k \in DOMAIN conflictedentries}

\* the places of the conflicted map that hold the entry object id
ConflictedPlacesOf(id) ==
    {ki \in ConflictedPlaces : conflictedentries[ki[1]][ki[2]].id = id}

\* the number of active entries whose directory component is p
ActiveIn(p) ==
    Cardinality({i \in DOMAIN indexentries : indexentries[i].pathname = p})

RECURSIVE SumNfiles(_, _)
SumNfiles(dd, keys) ==
    IF keys = {} THEN 0
    ELSE Only({dd[k].nfiles + SumNfiles(dd, keys \ {k}) :
               k \in {CHOOSE x \in keys : TRUE}})

\* the records of the cache-tree block of an input
TreeRecsOf(in) ==
    UNION {{in.exts[j].recs[i] : i \in DOMAIN in.exts[j].recs} :
           j \in {k \in DOMAIN in.exts : in.exts[k].tag = "TREE"}}

(***************************************************************************)
(* Properties                                                              *)
(***************************************************************************)
\* C1: no dump line is printed and the output is neither opened nor written
\* before the digest comparison of read_index has succeeded; an input whose
\* trailer differs from the digest of its content ends with the checksum
\* error, nothing printed and nothing written, whatever the flags.
C1_NothingBeforeVerified ==
    /\ []((printed # <<>> \/ opened \/ out # <<>>)
              => (pc \notin ReadingPcs /\ TrailerMatches))
    /\ []((~TrailerMatches /\ pc \notin ReadingPcs
              /\ err \in {"none", "SHAError"})
              => (pc = "error" /\ err = "SHAError" /\ printed = <<>>
                     /\ ~opened /\ out = <<>>))
    /\ [][(printed' # printed \/ opened' # opened \/ out' # out)
              => pc \notin ReadingPcs]_vars

\* a corrupt trailer met with all four flags given
C1_Witness ==
    /\ pc = "error" /\ err = "SHAError" /\ ~TrailerMatches
    /\ args = <<"-h", "-i", "-c", "-u">>
    /\ printed = <<>> /\ ~opened

C3_StageClassification ==
    /\ \A i \in DOMAIN indexentries :
           /\ indexentries[i].id \in 1..Len(files)
           /\ Stage(indexentries[i].flags)
                  = input.ents[indexentries[i].id].stage
    /\ \A ki \in ConflictedPlaces :
           /\ conflictedentries[ki[1]][ki[2]].id \in 1..Len(files)
           /\ Stage(conflictedentries[ki[1]][ki[2]].flags)
                  = input.ents[conflictedentries[ki[1]][ki[2]].id].stage
    /\ \A id \in 1..Len(files) :
           /\ input.ents[id].stage \in 0..3
           /\ CountIn(indexentries, id)
                  = (IF input.ents[id].stage \in {0, 1} THEN 1 ELSE 0)
           /\ Cardinality(ConflictedPlacesOf(id))
                  = (IF input.ents[id].stage = 0 THEN 0 ELSE 1)
           /\ \A ki \in ConflictedPlacesOf(id) :
                  ki[1] = dirname(input.ents[id].name)

\* entries of stage 1, 2 and 3 of one path have been read
C3_Witness ==
    /\ pc = "peek_ext" /\ Len(files) = 3 /\ Len(indexentries) = 1
    /\ Cardinality(ConflictedPlaces) = 3
    /\ Stage(indexentries[1].flags) = 1

\* C4: the n_files field of the v5 header is the number of active entries,
\* which is the number of slots of the file offset table and of file records;
\* the n_dirs field is the number of slots of the directory offset table and
\* of directory records.
C4_HeaderCounts ==
    pc = "done"
        => /\ HeaderNFiles = Len(indexentries)
           /\ Len(indexentries) = Len(fileoffsets)
           /\ HeaderNDirs = Len(diroffsets)
           /\ Len(diroffsets) = Cardinality(DOMAIN dirwritedataoffsets)

\* C5: in the finished output the foffset of every directory record lies
\* inside the file offset table when the table is not empty, and foffset +
\* 4 * nfiles does not pass the end of the table.
C5_FoffsetInsideTable ==
    pc = "done"
        => \A p \in paths :
               /\ Len(indexentries) > 0
                      => /\ fileoffsetbeginning <= DirRecordFoffset(p)
                         /\ DirRecordFoffset(p)
                                < fileoffsetbeginning + 4 * Len(indexentries)
               /\ DirRecordFoffset(p) + 4 * DirRecordNfiles(p)
                      <= fileoffsetbeginning + 4 * Len(indexentries)

\* C6: after write_file_data, for the rest of the conversion, the nfiles of
\* the DirEntries sum to the number of active entries and the nfiles of each
\* directory is the number of active entries in it; the cache-tree merge
\* leaves every nfiles as it was.
C6_NfilesCountsActive ==
    pc \in AfterFileDataPcs
        => /\ SumNfiles(dirdata, DOMAIN dirdata) = Len(indexentries)
           /\ \A p \in paths \cup DOMAIN dirdata :
                  (IF p \in DOMAIN dirdata THEN dirdata[p].nfiles ELSE 0)
                      = ActiveIn(p)

\* the conversion has finished after a cache-tree merge over two directories
C6_Witness ==
    /\ pc = "done" /\ Cardinality(DOMAIN dirdata) = 2
    /\ <<>> \in DOMAIN dirdata /\ dirdata[<<>>].nentries = 2
    /\ SumNfiles(dirdata, DOMAIN dirdata) = 2

\* C7: the output always holds a directory record of the root "": an empty
\* index gives that one record and n_dirs = 1; two entries in the directory s
\* give the root with nfiles = 0 next to s with nfiles = 2, and n_dirs = 2.
C7_RootRecordPresent ==
    pc = "done"
        => /\ <<>> \in DOMAIN dirwritedataoffsets
           /\ files = <<>> => HeaderNDirs = 1 /\ Len(diroffsets) = 1
           /\ (Len(indexentries) = 2 /\ ActiveIn(NAME_s) = 2)
                  => /\ HeaderNDirs = 2
                     /\ DirRecordNfiles(<<>>) = 0
                     /\ DirRecordNfiles(NAME_s) = 2

\* C8: the objname field of the directory record of a directory the
\* cache-tree names with an entry_count other than "-1" is the 20 raw bytes
\* of the object name the extension gives it; with "-1" it is 20 zero bytes.
C8_ObjnameIsRaw ==
    pc = "done"
        => \A t \in TreeRecsOf(input) :
               t.name \in DOMAIN dirwritedataoffsets
                   => DirRecordObjname(t.name)
                          = (IF t.entry_count # STR_MINUS1 THEN t.obj
                             ELSE Zeros(20))

\* C9: read_header rejects a signature other than "DIRC" with BadSignature
\* and a version other than 2 and 3 with UnsupportedVersion, before any entry
\* is read or any output written.
C9_BadHeaderRejected ==
    ((input.sig # STR_DIRC \/ input.version \notin {2, 3})
        /\ pc # "read_header")
        => /\ pc = "error"
           /\ err = (IF input.sig # STR_DIRC THEN "BadSignature"
                     ELSE "UnsupportedVersion")
           /\ files = <<>> /\ ~opened /\ out = <<>>

\* C10: for version 2 and version 3 the bytes read_entry consumes for an
\* entry (the fixed part, the name, its NUL and the padding) are a multiple
\* of 8.
C10_EntryMultipleOf8 ==
    header.version \in {2, 3}
        => \A i \in DOMAIN consumed : consumed[i] % 8 = 0

\* C11: read_index terminates on every finite input: when the file ends
\* before the delimiter of a name or before the bytes a read asks for, it
\* stops with an error (whatever the error is called) and reads no further.
C11_TruncationStops ==
    /\ pc # "hang"
    /\ (input.cut > 0 /\ pc \notin ReadingPcs) => pc = "error"

\* C12: when read_tree_extensiondata or read_reuc_extensiondata returns
\* normally, the bytes it counted after the length word are exactly the
\* declared length; a last record that ends beyond the declared length is
\* reported, the records are not returned.
C12_ExtensionLengthExact ==
    pc \in {"extension2", "read_trailer"}
        => locals.read = locals.extensionsize

\* the DirEntry dictionary a run gets when it merges the items of the
\* cache-tree in ascending order of their keys
CanonicalDirdata ==
    CompileLoop(write_file_data([out |-> <<>>, pos |-> 0],
                                indexentries).dirdata,
                treeextensiondata, SortedStrs(DOMAIN treeextensiondata), 1)

\* C13: the conversion is deterministic: whatever order the dictionaries are
\* iterated in, the DirEntry dictionary after the merge is the one the
\* ascending order gives, and the finished output is the output pass 9
\* writes from it, so two runs on the same input end with the same bytes.
C13_Deterministic ==
    /\ pc \in {"write_directory_data", "done"}
           => dirdata = CanonicalDirdata
    /\ pc = "done"
           => out = write_directory_data(Fw, CanonicalDirdata,
                                         dirwritedataoffsets,
                                         fileoffsetbeginning).fw.out

\* a finished run whose cache-tree has two items, to be merged in either order
C13_Witness ==
    /\ pc = "done" /\ Cardinality(DOMAIN treeextensiondata) = 2
    /\ dirdata = CanonicalDirdata
    /\ dirdata[NAME_s].nentries = 1 /\ dirdata[<<>>].nentries = 2

(***************************************************************************)
(* read_tree_extensiondata on its own, one record of the block per step,   *)
(* over every directory tree of up to MaxTreeNodes directories             *)
(***************************************************************************)
MaxTreeNodes == 5

\* a is i or one of its ancestors, in the tree with parent vector par
RECURSIVE IsAncestorOrSelf(_, _, _)
IsAncestorOrSelf(par, a, i) ==
    \/ a = i
    \/ i > 1 /\ IsAncestorOrSelf(par, a, par[i])

\* par lists a tree in pre-order: node 1 is the root and every later node
\* hangs below the node before it or below one of that node's ancestors
PreOrder(par) ==
    /\ par[1] = 0
    /\ \A i \in 2..Len(par) :
           par[i] \in 1..(i - 1) /\ IsAncestorOrSelf(par, par[i], i - 1)

TreeShapes ==
    UNION {{par \in [1..n -> 0..(n - 1)] : PreOrder(par)} :
           n \in 1..MaxTreeNodes}

NChildren(par, i) == Cardinality({j \in 1..Len(par) : par[j] = i})

\* the root has the empty name; the k-th child of a directory is named by
\* the k-th letter, so the same name occurs in different directories
TreeName(par, i) ==
    IF i = 1 THEN <<>>
    ELSE <<96 + Cardinality({j \in 2..i : par[j] = par[i]})>>

\* the record of directory i: its entry count is "-1" with no object name
\* when it is invalidated, the digit i with an object name of its own if not
TreeRecOf(par, invalid, i) ==
    TreeRec(TreeName(par, i),
            IF i \in invalid THEN STR_MINUS1 ELSE <<DIGIT0 + i>>,
            <<DIGIT0 + NChildren(par, i)>>,
            IF i \in invalid THEN <<>> ELSE [k \in 1..20 |-> i])

TreeRecsOfShape(par, invalid) ==
    [i \in 1..Len(par) |-> TreeRecOf(par, invalid, i)]

\* a tree with no directory invalidated, or with one
TreeInputs ==
    UNION {{[par |-> par, invalid |-> inv] :
            inv \in {{}} \cup {{i} : i \in 1..Len(par)}} :
           par \in TreeShapes}

\* the ancestors of directory i, the root first
RECURSIVE AncestorsOf(_, _)
AncestorsOf(par, i) ==
    IF i = 1 THEN <<>> ELSE Append(AncestorsOf(par, par[i]), par[i])

\* the names of the directories nodes
NamesOf(par, nodes) == [k \in 1..Len(nodes) |-> TreeName(par, nodes[k])]

\* the path of directory i below the root, every name followed by "/"
RECURSIVE PathBelowRoot(_, _)
PathBelowRoot(par, i) ==
    IF i = 1 THEN <<>>
    ELSE PathBelowRoot(par, par[i]) \o TreeName(par, i) \o <<SLASH>>

ExpectedKey(par, i) == IF i = 1 THEN <<SLASH>> ELSE PathBelowRoot(par, i)

\* the block starts after its tag, which read_index has absorbed
InitTree ==
    /\ input \in TreeInputs
    /\ file = ExtBytes(TreeExt(TreeRecsOfShape(input.par, input.invalid)))
    /\ args = <<>>
    /\ pc = "tree_size"
    /\ err = "none"
    /\ pos = 4
    /\ sha = STR_TREE
    /\ header = NoHeader
    /\ indexentries = <<>>
    /\ conflictedentries = EmptyDict
    /\ paths = {}
    /\ files = <<>>
    /\ consumed = <<>>
    /\ treeextensiondata = EmptyDict
    /\ reucextensiondata = EmptyDict
    /\ ext = STR_TREE
    /\ sha1read = <<>>
    /\ argi = 1
    /\ printed = <<>>
    /\ opened = FALSE
    /\ out = <<>>
    /\ fwpos = 0
    /\ diroffsets = <<>>
    /\ dirwritedataoffsets = EmptyDict
    /\ fileoffsetbeginning = 0
    /\ fileoffsets = <<>>
    /\ dirdata = EmptyDict
    /\ locals = NoLocals

\* what the steps of the cache-tree reader leave alone
treeFrame ==
    <<input, file, args, header, indexentries, conflictedentries, paths,
      files, consumed, reucextensiondata, ext, sha1read, argi, printed>>

\* lines 215-220: the length word and the initial stack
TreeReadSize ==
    /\ pc = "tree_size"
    /\ \E sz \in {ReaderRead(Reader(pos, sha), 4)} :
           /\ pos' = sz.r.pos
           /\ sha' = sz.r.sha
           /\ IF Len(sz.data) < 4
              THEN /\ pc' = "error"
                   /\ err' = "struct.error"
                   /\ locals' = locals
              ELSE /\ pc' = "tree_record"
                   /\ err' = err
                   /\ locals' = Locals(Unpack32(sz.data), 0, <<0>>,
                                       << <<>> >>, 0)
    /\ UNCHANGED <<treeextensiondata>>
    /\ UNCHANGED treeFrame
    /\ UNCHANGED writeVars

\* lines 221-255: one turn of the loop
TreeReadRecord ==
    /\ pc = "tree_record"
    /\ locals.read < locals.extensionsize
    /\ \E x \in {TreeRecord([err |-> "none", r |-> Reader(pos, sha),
                             read |-> locals.read,
                             subtreenr |-> locals.subtreenr,
                             subtree |-> locals.subtree,
                             listsize |-> locals.listsize,
                             extensiondata |-> treeextensiondata])} :
           /\ pos' = x.r.pos
           /\ sha' = x.r.sha
           /\ err' = x.err
           /\ pc' = IF x.err = "none" THEN pc
                    ELSE IF x.err = "hang" THEN "hang" ELSE "error"
           /\ locals' = Locals(locals.extensionsize, x.read, x.subtreenr,
                               x.subtree, x.listsize)
           /\ treeextensiondata' = x.extensiondata
    /\ UNCHANGED treeFrame
    /\ UNCHANGED writeVars

\* line 257: the loop is left and the dictionary returned
TreeReturn ==
    /\ pc = "tree_record"
    /\ ~(locals.read < locals.extensionsize)
    /\ pc' = "tree_done"
    /\ UNCHANGED <<err, pos, sha, locals, treeextensiondata>>
    /\ UNCHANGED treeFrame
    /\ UNCHANGED writeVars

NextTree == TreeReadSize \/ TreeReadRecord \/ TreeReturn

SpecTree == InitTree /\ [][NextTree]_vars

\* the records of the block whose bytes the reader has counted
TreeRecordsRead ==
    Cardinality({i \in 1..Len(input.par) :
        Len(RecsBytes("TREE",
                SubSeq(TreeRecsOfShape(input.par, input.invalid), 1, i)))
            <= locals.read})

\* what read_tree_extensiondata stores for directory i
ExpectedTreeEntry(par, invalid, i) ==
    TreeExtensionData(ExpectedKey(par, i),
                      TreeRecOf(par, invalid, i).entry_count,
                      TreeRecOf(par, invalid, i).subtrees,
                      IF i \in invalid THEN STR_INVALID
                      ELSE hexlify(TreeRecOf(par, invalid, i).obj))

\* the stack once the finished directories are popped off it
PoppedStack ==
    PopStack([subtreenr |-> locals.subtreenr, subtree |-> locals.subtree,
              listsize |-> locals.listsize])

\* C14: for every pre-order listing of a directory tree, each record read so
\* far is stored under the names of its ancestors below the root joined by
\* "/", its own name and a trailing "/" (the root under "/"), no two
\* directories share a key, the stack after a record holds its ancestors and
\* itself, and popped for the next record it holds that record's ancestors.
C14_TreeKeys ==
    pc \in {"tree_record", "tree_done"} =>
        /\ err = "none"
        /\ DOMAIN treeextensiondata
               = {ExpectedKey(input.par, j) : j \in 1..TreeRecordsRead}
        /\ Cardinality(DOMAIN treeextensiondata) = TreeRecordsRead
        /\ \A j \in 1..TreeRecordsRead :
               treeextensiondata[ExpectedKey(input.par, j)]
                   = ExpectedTreeEntry(input.par, input.invalid, j)
        /\ TreeRecordsRead >= 1 =>
               locals.subtree
                   = NamesOf(input.par,
                             Append(AncestorsOf(input.par, TreeRecordsRead),
                                    TreeRecordsRead))
        /\ (TreeRecordsRead >= 1 /\ TreeRecordsRead < Len(input.par)) =>
               /\ PoppedStack.subtree
                      = NamesOf(input.par,
                                AncestorsOf(input.par, TreeRecordsRead + 1))
               /\ PoppedStack.listsize = Len(PoppedStack.subtree) - 1
        /\ pc = "tree_done" => TreeRecordsRead = Len(input.par)

\* the whole block is read of a tree three levels deep in which a directory
\* with two subdirectories is followed by a sibling
C14_Witness ==
    /\ pc = "tree_done"
    /\ input.par = <<0, 1, 2, 2, 1>>
    /\ <<97, SLASH, 98, SLASH>> \in DOMAIN treeextensiondata
    /\ <<98, SLASH>> \in DOMAIN treeextensiondata
    /\ Cardinality(DOMAIN treeextensiondata) = 5

\* the output holds at offset o the file record of the entry e: its filename
\* and a NUL, then FILE_DATA_STRUCT, whose mtimesec follows flags and mode
FileRecordAt(o, e) ==
    /\ o + Len(e.filename) + 1 + FILE_DATA_STRUCT_size + 4 <= Len(out)
    /\ SubSeq(out, o + 1, o + Len(e.filename) + 1) = e.filename \o <<NUL>>
    /\ OutU32(o + Len(e.filename) + 1 + 4) = e.mtimesec

\* the byte offsets of the file offset slots the record of directory d claims
SlotsOf(d) ==
    {DirRecordFoffset(d) + 4 * (k - 1) : k \in 1..DirRecordNfiles(d)}

\* the active entries (by position) whose directory is d
ActiveEntriesIn(d) ==
    {i \in DOMAIN indexentries : indexentries[i].pathname = d}

\* the directories that hold an active entry
ActiveDirs == {indexentries[i].pathname : i \in DOMAIN indexentries}

\* C15: in the finished output the nfiles(d) slots from foffset(d) of every
\* directory d with an active entry hold exactly the offsets of the file
\* records of d's active entries, each the position of the record's
\* filename; the slot ranges of distinct directories are disjoint and
\* together are the whole file offset table.
C15_FileOffsetSlots ==
    pc = "done" =>
        /\ \A d \in ActiveDirs :
               /\ d \in DOMAIN dirwritedataoffsets
               /\ DirRecordNfiles(d) = Cardinality(ActiveEntriesIn(d))
               /\ \A a \in SlotsOf(d) :
                      \E i \in ActiveEntriesIn(d) :
                          FileRecordAt(OutU32(a), indexentries[i])
               /\ \A i \in ActiveEntriesIn(d) :
                      \E a \in SlotsOf(d) :
                          FileRecordAt(OutU32(a), indexentries[i])
        /\ \A d, e \in ActiveDirs : d # e => SlotsOf(d) \cap SlotsOf(e) = {}
        /\ UNION {SlotsOf(d) : d \in ActiveDirs}
               = {fileoffsetbeginning + 4 * (j - 1) :
                  j \in 1..Len(indexentries)}

\* a finished run that read s/a before a: two directories, one slot each,
\* the root's slot first
C15_Witness ==
    /\ pc = "done"
    /\ Len(indexentries) = 2
    /\ indexentries[1].pathname = NAME_s /\ indexentries[2].pathname = <<>>
    /\ DirRecordFoffset(<<>>) = fileoffsetbeginning
    /\ DirRecordFoffset(NAME_s) = fileoffsetbeginning + 4
    /\ FileRecordAt(OutU32(fileoffsetbeginning), indexentries[2])

\* the byte at offset b lies in the directory offset table, in the file
\* offset table or in the 50-byte placeholder of a directory
InReserved(b) ==
    \/ b \in HEADER_SIZE..(HEADER_SIZE + 4 * Cardinality(paths) - 1)
    \/ b \in fileoffsetbeginning
                 ..(fileoffsetbeginning + 4 * Len(indexentries) - 1)
    \/ \E p \in DOMAIN dirwritedataoffsets :
           b \in dirwritedataoffsets[p]
                     ..(dirwritedataoffsets[p]
                            + DIRECTORY_DATA_STRUCT_size + 4 - 1)

\* the passes after the file records are written
BackpatchPcs ==
    {"write_dir_offsets", "write_file_offsets", "compile_cache_tree_data",
     "write_directory_data"}

\* a step keeps the length of the output and every byte outside the
\* reserved ranges
KeepsUnreserved ==
    /\ Len(out') = Len(out)
    /\ \A i \in 1..Len(out) : out'[i] # out[i] => InReserved(i - 1)

\* C16: once the file records are written, the later passes never change
\* the length of the output and change only bytes of the directory offset
\* table, of the file offset table and of the directories' placeholders.
C16_BackpatchFrame == [][(pc \in BackpatchPcs) => KeepsUnreserved]_vars

\* a finished run in which each of the three passes has written: a directory
\* offset, a file offset and a filled directory record
C16_Witness ==
    /\ pc = "done"
    /\ Cardinality(paths) = 2 /\ Len(indexentries) = 2
    /\ OutU32(HEADER_SIZE + 4) # 0
    /\ OutU32(fileoffsetbeginning + 4) # 0
    /\ DirRecordNfiles(NAME_s) = 1
    /\ Len(out) > fileoffsetbeginning + 8

\* C17: compile_cache_tree_data raises no exception (it is the only place
\* that can raise KeyError or ValueError once the output is open), and after
\* it every directory named in the cache-tree has a DirEntry whose nentries
\* and nsubtrees are the integers of the record's two counts.
C17_CompileCompletes ==
    /\ (pc = "error" /\ opened) => err \notin {"KeyError", "ValueError"}
    /\ pc \in {"write_directory_data", "done"} =>
           \A k \in DOMAIN treeextensiondata :
               /\ StripSlash(k) \in DOMAIN dirdata
               /\ dirdata[StripSlash(k)].nentries
                      = IntValue(treeextensiondata[k].entry_count, 10)
               /\ dirdata[StripSlash(k)].nsubtrees
                      = IntValue(treeextensiondata[k].subtrees, 10)

\* the CRC word after the DirEntry block of directory p in the output
DirRecordCrc(p) == OutU32(dirwritedataoffsets[p] + DIRECTORY_DATA_STRUCT_size)

\* the DirEntry block of directory p in the output
DirRecordBlock(p) ==
    SubSeq(out, dirwritedataoffsets[p] + 1,
           dirwritedataoffsets[p] + DIRECTORY_DATA_STRUCT_size)

\* C18: when write_index_v5 returns, the record of every directory of paths
\* is filled: its CRC word is the CRC over its path bytes continued over its
\* DirEntry block, and it is not the zero placeholder with a zero CRC word.
C18_AllDirectoriesFilled ==
    pc = "done" =>
        \A p \in paths :
            /\ DirRecordCrc(p)
                   = calculate_crc(DirRecordBlock(p),
                                   calculate_crc(DirPathBytes(p), 0))
            /\ ~(DirRecordBlock(p) = Zeros(DIRECTORY_DATA_STRUCT_size)
                    /\ DirRecordCrc(p) = 0)

(***************************************************************************)
(* read_entry and write_file_entry on their own, over every value of the   *)
(* 16-bit flags word of an entry                                           *)
(***************************************************************************)
FlagsValues == 0..65535

\* the version-2 entry 'a' with the flags word f in place of its own
FlagsEntryBytes(f) ==
    [EntryBytes(2, Ent(NAME_a, 0), 1)
         EXCEPT ![STAT_DATA_STRUCT_size - 1] = f \div 256,
                ![STAT_DATA_STRUCT_size] = f % 256]

InitFlags ==
    /\ input \in {[flags |-> f] : f \in FlagsValues}
    /\ file = FlagsEntryBytes(input.flags)
    /\ args = <<>>
    /\ pc = "flags_read"
    /\ err = "none"
    /\ pos = 0
    /\ sha = <<>>
    /\ header = NoHeader
    /\ indexentries = <<>>
    /\ conflictedentries = EmptyDict
    /\ paths = {}
    /\ files = <<>>
    /\ consumed = <<>>
    /\ treeextensiondata = EmptyDict
    /\ reucextensiondata = EmptyDict
    /\ ext = <<>>
    /\ sha1read = <<>>
    /\ argi = 1
    /\ printed = <<>>
    /\ opened = FALSE
    /\ out = <<>>
    /\ fwpos = 0
    /\ diroffsets = <<>>
    /\ dirwritedataoffsets = EmptyDict
    /\ fileoffsetbeginning = 0
    /\ fileoffsets = <<>>
    /\ dirdata = EmptyDict
    /\ locals = NoLocals

\* what the two steps leave alone
flagsFrame ==
    <<input, file, args, header, conflictedentries, paths, files, consumed,
      treeextensiondata, reucextensiondata, ext, sha1read, argi, printed,
      opened, diroffsets, dirwritedataoffsets, fileoffsetbeginning,
      fileoffsets, dirdata, locals>>

\* read_entry, lines 158-185: the entry is decoded, its flags as "h"
FlagsReadEntry ==
    /\ pc = "flags_read"
    /\ \E e \in {read_entry(Reader(pos, sha), 2, 1)} :
           /\ pos' = e.r.pos
           /\ sha' = e.r.sha
           /\ err' = e.err
           /\ indexentries' = IF e.err = "none" THEN <<e.entry>>
                              ELSE indexentries
           /\ pc' = IF e.err = "none" THEN "flags_write" ELSE "error"
    /\ UNCHANGED <<out, fwpos>>
    /\ UNCHANGED flagsFrame

\* write_file_entry, lines 387-404, at the start of an empty output
FlagsWriteEntry ==
    /\ pc = "flags_write"
    /\ \E w \in {write_file_entry(Fw, indexentries[1], fwpos)} :
           /\ out' = w.fw.out
           /\ fwpos' = w.fw.pos
           /\ err' = w.err
           /\ pc' = IF w.err = "none" THEN "flags_done" ELSE "error"
    /\ UNCHANGED <<pos, sha, indexentries>>
    /\ UNCHANGED flagsFrame

NextFlags == FlagsReadEntry \/ FlagsWriteEntry

SpecFlags == InitFlags /\ [][NextFlags]_vars

\* the flags field of the file record at the start of the output: the first
\* two bytes of FILE_DATA_STRUCT, after the filename and its NUL
EmittedFlags ==
    Unpack16(SubSeq(out, Len(indexentries[1].filename) + 2,
                    Len(indexentries[1].filename) + 3))

\* C19: for every 16-bit flags word, decoded as a signed integer, the flags
\* field write_file_entry emits is an unsigned 16-bit value whose bit 15 is
\* the word's bit 15, whose bits 13-14 are the word's stage (bits 12-13) and
\* whose other bits are zero.
C19_FlagsField ==
    /\ pc \notin {"error", "hang"}
    /\ pc \in {"flags_write", "flags_done"} =>
           indexentries[1].flags
               = (IF input.flags >= 32768 THEN input.flags - 65536
                  ELSE input.flags)
    /\ pc = "flags_done" =>
           /\ EmittedFlags \in 0..65535
           /\ EmittedFlags \div 32768 = input.flags \div 32768
           /\ (EmittedFlags \div 8192) % 4 = (input.flags \div 4096) % 4
           /\ EmittedFlags % 8192 = 0

\* the record is written of an entry whose flags word has bit 15 set (a
\* negative integer once decoded), stage 3 and other bits set
C19_Witness ==
    /\ pc = "flags_done"
    /\ input.flags = 49151
    /\ indexentries[1].flags = -16385
    /\ EmittedFlags = 57344

\* a value fits an unsigned 32-bit field
FitsU32(v) == v >= 0 /\ v \div 65536 < 65536

\* C20: every value write_directory_data is about to pack into an unsigned
\* 32-bit field of a directory record (the running foffset, the largest of
\* which is the last, and cr, ncr, nsubtrees, nfiles, nentries of every
\* DirEntry) is in 0..2^32-1, and the pass raises no struct.error.
C20_DirFieldsFitU32 ==
    /\ pc = "write_directory_data" =>
           /\ FitsU32(fileoffsetbeginning)
           /\ FitsU32(fileoffsetbeginning
                          + 4 * SumNfiles(dirdata, DOMAIN dirdata))
           /\ \A d \in DOMAIN dirdata :
                  /\ FitsU32(dirdata[d].cr) /\ FitsU32(dirdata[d].ncr)
                  /\ FitsU32(dirdata[d].nsubtrees)
                  /\ FitsU32(dirdata[d].nfiles)
                  /\ FitsU32(dirdata[d].nentries)
    /\ (pc = "error" /\ dirdata # EmptyDict) => err # "struct.error"

====
